---- MODULE Spec2Model ----
(***************************************************************************)
(* Model of scribe/command_line.py: the "assemble" and "analyze"          *)
(* subcommands of main, fetch_target_content, yield_words_from_content    *)
(* and create_probability_matrix_from_words.                              *)
(*                                                                         *)
(* A character is its code point (ord).  A text is a sequence of code     *)
(* points.  The 256x256x256 int32 matrix is a bag of index triples: the   *)
(* number of copies of <<c1, c2, c3>> is the counter matrix[c1, c2, c3]   *)
(* and an absent triple is a zero counter.                                 *)
(***************************************************************************)
EXTENDS Integers, Sequences, FiniteSets, Bags, TLC

VARIABLES
    entry,            \* the function called from outside: "main" or "build"
    subcommand,       \* namespace.subcommand
    target,           \* namespace.target and what it designates
    outdir_writable,  \* os.access(output_directory, os.W_OK)
    output_file,      \* the file at namespace.output
    output_file0,     \* that file when the run began
    opened,           \* the output file was opened for writing in this run
    pc,               \* the statement to execute next
    content,          \* main: content
    pos,              \* yield_words_from_content: letters consumed
    word,             \* yield_words_from_content: word
    yielded,          \* the words yielded so far, in order
    words,            \* main: words (a set)
    word_list,        \* create_probability_matrix_from_words: words
    wi,               \* words of word_list taken by the outer for
    li,               \* letters of padded taken by the inner for (0: none)
    padded,           \* the word after "\n{}\n".format(word)
    matrix,
    letter_buffer1,
    letter_buffer2,
    err,              \* the exception in flight or caught, "None" if none
    err_step,         \* the step of main that raised it
    log               \* the records the logger emitted

vars == <<entry, subcommand, target, outdir_writable, output_file,
          output_file0, opened, pc, content, pos, word, yielded, words,
          word_list, wi, li, padded, matrix, letter_buffer1, letter_buffer2,
          err, err_step, log>>

tokenizer_vars == <<pos, word, yielded, words>>
builder_vars == <<word_list, wi, li, padded, matrix, letter_buffer1,
                  letter_buffer2>>
env_vars == <<entry, subcommand, target, outdir_writable, output_file0>>

----
\* Bounds of the model.

\* Longest text a target holds.
MaxLen == 4

\* Budget of a word list handed to the builder directly: the sum over its
\* words of (length + 1).
MaxBudget == 5

----
\* Characters.

\* "\n"
LineFeed == 10

\* The size of each axis of the matrix.
MatrixSize == 256

\* string.whitespace: " \t\n\r\x0b\x0c"
IsWhitespace(c) == c \in {32, 9, 10, 13, 11, 12}

\* string.punctuation: !"#$%&'()*+,-./  :;<=>?@  [\]^_`  {|}~
IsPunctuation(c) == c \in (33..47) \cup (58..64) \cup (91..96) \cup (123..126)

\* str.isdigit() of one character: the ASCII digits, the superscript digits
\* of Latin-1 and (as a sample of the digits above 255) the Arabic-Indic ones.
IsDigit(c) == c \in (48..57) \cup {178, 179, 185} \cup (1632..1641)

\* Characters a target decoded as ISO-8859-1 may hold (codes below 256):
\* line feed, ".", "1", "a", "b".
DecodedChars == {10, 46, 49, 97, 98}

\* Characters of the words handed to the builder directly; 300 stands for
\* the characters with a code of 256 or above.
BuilderChars == {10, 46, 49, 97, 98, 300}

Texts(chars, n) == UNION {[1..k -> chars] : k \in 0..n}

\* None is <<>>, an integer n is <<n>>.
None == <<>>
Indices == {None} \cup {<<n>> : n \in -1..2}

Min(a, b) == IF a < b THEN a ELSE b
Max(a, b) == IF a > b THEN a ELSE b

\* s[start:end]
Slice(s, start, end) ==
    LET n == Len(s)
        Clamp(i) == IF i < 0 THEN Max(n + i, 0) ELSE Min(i, n)
        lo == IF start = None THEN 0 ELSE Clamp(start[1])
        hi == IF end = None THEN n ELSE Clamp(end[1])
    IN  SubSeq(s, lo + 1, hi)

\* s.split(sep) for a one-character sep
RECURSIVE Split(_, _)
Split(s, sep) ==
    IF \A i \in 1..Len(s) : s[i] # sep
    THEN <<s>>
    ELSE LET i == CHOOSE j \in 1..Len(s) :
                      s[j] = sep /\ \A k \in 1..(j - 1) : s[k] # sep
         IN  <<SubSeq(s, 1, i - 1)>> \o Split(SubSeq(s, i + 1, Len(s)), sep)

\* a < b for two strings
LexLess(a, b) ==
    \E i \in 1..(Min(Len(a), Len(b)) + 1) :
        /\ \A k \in 1..(i - 1) : a[k] = b[k]
        /\ \/ i = Len(a) + 1 /\ i <= Len(b)
           \/ i <= Len(a) /\ i <= Len(b) /\ a[i] < b[i]

\* sorted(S)
RECURSIVE Sorted(_)
Sorted(S) ==
    IF S = {} THEN <<>>
    ELSE LET m == CHOOSE x \in S : \A y \in S \ {x} : LexLess(x, y)
         IN  <<m>> \o Sorted(S \ {m})

\* sep.join(ws) for a one-character sep
RECURSIVE Join(_, _)
Join(ws, sep) ==
    IF Len(ws) = 0 THEN <<>>
    ELSE IF Len(ws) = 1 THEN ws[1]
    ELSE ws[1] \o <<sep>> \o Join(Tail(ws), sep)

----
\* The environment.

\* namespace.target: an http(s) URL with the answer of the server, or a
\* local path with what the file system holds there.
UrlTargets ==
    {[url |-> TRUE, reachable |-> TRUE, status |-> s, kind |-> "remote",
      readable |-> FALSE] : s \in {200, 404}}
    \cup {[url |-> TRUE, reachable |-> FALSE, status |-> 0, kind |-> "remote",
           readable |-> FALSE]}

PathTargets ==
    {[url |-> FALSE, reachable |-> FALSE, status |-> 0, kind |-> k,
      readable |-> r] :
        k \in {"missing", "directory", "regular", "special"},
        r \in BOOLEAN}
    \ {[url |-> FALSE, reachable |-> FALSE, status |-> 0, kind |-> "missing",
        readable |-> TRUE]}

Targets == UrlTargets \cup PathTargets

\* What namespace.output designates before the run.
OutputFiles ==
    {[kind |-> k, text |-> <<>>, table |-> EmptyBag] :
        k \in {"absent", "old", "directory"}}

\* except Exception: every exception the steps raise derives from Exception.
IsException(kind) == kind \in {"IOError", "ConnectionError", "IndexError"}

----
\* fetch_target_content

\* os.path.isfile(target_file)
IsFile(tgt) == tgt.kind = "regular"

\* os.access(target_file, os.R_OK)
Access(tgt) == tgt.kind # "missing" /\ tgt.readable

\* Variant of TargetRejected: the check is left to codecs.open.
TargetRejectedNever(tgt) == FALSE

\* The condition of the raise: not A and B parses as (not A) and B.
TargetRejected(tgt) == ~IsFile(tgt) /\ Access(tgt)

\* codecs.open(target_file, "r") raises IOError for a missing path, a
\* directory and a path the process may not read.
OpenFails(tgt) == tgt.kind \in {"missing", "directory"} \/ ~tgt.readable

\* The result of fetch_target_content(target, start, end) when the target
\* holds data: the exception raised ("None" if none) and the text returned.
fetch_target_content(tgt, data, start, end) ==
    IF tgt.url
    THEN IF ~tgt.reachable
         THEN [err |-> "ConnectionError", text |-> <<>>]
         ELSE IF tgt.status # 200
         THEN [err |-> "IOError", text |-> <<>>]
         ELSE [err |-> "None", text |-> Slice(data, start, end)]
    ELSE IF TargetRejected(tgt)
         THEN [err |-> "IOError", text |-> <<>>]
         ELSE IF OpenFails(tgt)
         THEN [err |-> "IOError", text |-> <<>>]
         ELSE [err |-> "None", text |-> Slice(data, start, end)]

----
\* create_probability_matrix_from_words

\* Variant of Padded: "{}\n".format(word)
PaddedTrailingOnly(w) == w \o <<LineFeed>>

\* "\n{}\n".format(word)
Padded(w) == <<LineFeed>> \o w \o <<LineFeed>>

\* The state of the function at entry.
BuildInit ==
    [matrix |-> EmptyBag, letter_buffer1 |-> 0, letter_buffer2 |-> 0,
     err |-> "None"]

\* Variant of CountLetter: the code is wrapped into the axis (ordinal % 256).
CountLetterWrapped(st, letter) ==
    IF ~IsPunctuation(letter) /\ ~IsDigit(letter)
    THEN LET ordinal == letter % MatrixSize
         IN  [st EXCEPT
                 !.matrix = @ (+) SetToBag({<<st.letter_buffer1,
                                              st.letter_buffer2, ordinal>>}),
                 !.letter_buffer1 = st.letter_buffer2,
                 !.letter_buffer2 = ordinal]
    ELSE st

\* Variant of CountLetter: letter_buffer1 is not shifted.
CountLetterNoShift(st, letter) ==
    IF ~IsPunctuation(letter) /\ ~IsDigit(letter)
    THEN LET ordinal == letter
         IN  IF ordinal >= MatrixSize
             THEN [st EXCEPT !.err = "IndexError"]
             ELSE [st EXCEPT
                     !.matrix = @ (+) SetToBag({<<st.letter_buffer1,
                                                  st.letter_buffer2, ordinal>>}),
                     !.letter_buffer2 = ordinal]
    ELSE st

\* Variant of CountLetter: digits are not filtered.
CountLetterDigitsKept(st, letter) ==
    IF ~IsPunctuation(letter)
    THEN LET ordinal == letter
         IN  IF ordinal >= MatrixSize
             THEN [st EXCEPT !.err = "IndexError"]
             ELSE [st EXCEPT
                     !.matrix = @ (+) SetToBag({<<st.letter_buffer1,
                                                  st.letter_buffer2, ordinal>>}),
                     !.letter_buffer1 = st.letter_buffer2,
                     !.letter_buffer2 = ordinal]
    ELSE st

\* The body of the inner for, for one letter.  An index of 256 or above is
\* out of bounds for the axis: numpy raises IndexError before any store.
CountLetter(st, letter) ==
    IF ~IsPunctuation(letter) /\ ~IsDigit(letter)
    THEN LET ordinal == letter
         IN  IF ordinal >= MatrixSize
             THEN [st EXCEPT !.err = "IndexError"]
             ELSE [st EXCEPT
                     !.matrix = @ (+) SetToBag({<<st.letter_buffer1,
                                                  st.letter_buffer2, ordinal>>}),
                     !.letter_buffer1 = st.letter_buffer2,
                     !.letter_buffer2 = ordinal]
    ELSE st

\* The inner for over one padded word; an exception ends it.
RECURSIVE ScanLetters(_, _)
ScanLetters(st, letters) ==
    IF Len(letters) = 0 \/ st.err # "None" THEN st
    ELSE ScanLetters(CountLetter(st, Head(letters)), Tail(letters))

\* The outer for: letter_buffer1 and letter_buffer2 are set before it and
\* live on from one word to the next.
RECURSIVE ScanWords(_, _)
ScanWords(st, ws) ==
    IF Len(ws) = 0 \/ st.err # "None" THEN st
    ELSE ScanWords(ScanLetters(st, Padded(Head(ws))), Tail(ws))

\* The function as a whole: the exception raised and the matrix at that
\* moment, or "None" and the matrix returned.
create_probability_matrix_from_words(ws) == ScanWords(BuildInit, ws)

\* The word lists of budget n: the sum over the words of (length + 1) <= n.
RECURSIVE WordLists(_)
WordLists(n) ==
    {<<>>} \cup
    UNION {{<<w>> \o r : r \in WordLists(n - Len(w) - 1)} :
               w \in Texts(BuilderChars, n - 1)}

----
\* The state before the first statement.

Idle ==
    /\ content = <<>>
    /\ pos = 0 /\ word = <<>> /\ yielded = <<>> /\ words = {}
    /\ wi = 0 /\ li = 0 /\ padded = <<>>
    /\ matrix = EmptyBag /\ letter_buffer1 = 0 /\ letter_buffer2 = 0
    /\ err = "None" /\ err_step = "None" /\ log = <<>>
    /\ opened = FALSE

\* scribe <subcommand> <target> -o <output>, in any environment.
Init ==
    /\ entry = "main"
    /\ subcommand \in {"assemble", "analyze"}
    /\ target \in Targets
    /\ outdir_writable \in BOOLEAN
    /\ output_file \in OutputFiles
    /\ output_file0 = output_file
    /\ pc = "main"
    /\ word_list = <<>>
    /\ Idle

\* create_probability_matrix_from_words(words), called for itself.
InitBuild ==
    /\ entry = "build"
    /\ subcommand = "analyze"
    /\ target = [url |-> FALSE, reachable |-> FALSE, status |-> 0,
                 kind |-> "regular", readable |-> TRUE]
    /\ outdir_writable = TRUE
    /\ output_file = [kind |-> "absent", text |-> <<>>, table |-> EmptyBag]
    /\ output_file0 = output_file
    /\ pc = "build"
    /\ word_list \in WordLists(MaxBudget)
    /\ Idle

\* raise, in a step of main or in a function called for itself.
Raise(kind, step) ==
    /\ err' = kind
    /\ err_step' = step
    /\ pc' = IF entry = "main" THEN "except" ELSE "raised"

----
\* main

\* logger.info(...) at the head of the branch of the subcommand
LogStart ==
    /\ pc = "main"
    /\ log' = Append(log, <<"INFO", subcommand>>)
    /\ pc' = "validate_output"
    /\ UNCHANGED <<env_vars, output_file, opened, content, tokenizer_vars,
                   builder_vars, err, err_step>>

\* Variant of ValidateOutput: the output file is opened as it is validated.
ValidateOutputOpening ==
    /\ pc = "validate_output"
    /\ IF ~outdir_writable
       THEN Raise("IOError", "validate_output") /\ UNCHANGED opened
       ELSE pc' = "fetch" /\ opened' = TRUE /\ UNCHANGED <<err, err_step>>
    /\ UNCHANGED <<env_vars, output_file, content, tokenizer_vars,
                   builder_vars, log>>

\* output = validate_output(namespace.output)
ValidateOutput ==
    /\ pc = "validate_output"
    /\ IF ~outdir_writable
       THEN Raise("IOError", "validate_output")
       ELSE pc' = "fetch" /\ UNCHANGED <<err, err_step>>
    /\ UNCHANGED <<env_vars, output_file, opened, content, tokenizer_vars,
                   builder_vars, log>>

\* content = fetch_target_content(namespace.target, ...): start and end are
\* given to assemble only.
Fetch ==
    /\ pc = "fetch"
    /\ \E data \in Texts(DecodedChars, MaxLen), start \in Indices,
          end \in Indices :
          /\ subcommand = "analyze" => start = None /\ end = None
          /\ LET r == fetch_target_content(target, data, start, end)
             IN  IF r.err # "None"
                 THEN Raise(r.err, "fetch") /\ UNCHANGED content
                 ELSE /\ content' = r.text
                      /\ pc' = IF subcommand = "assemble" THEN "tokenize"
                               ELSE "split"
                      /\ UNCHANGED <<err, err_step>>
    /\ UNCHANGED <<env_vars, output_file, opened, tokenizer_vars,
                   builder_vars, log>>

\* One turn of "for word in yield_words_from_content(content)": the
\* generator takes one letter and, when it yields, main adds the word.
TokenizeLetter ==
    /\ pc = "tokenize"
    /\ pos < Len(content)
    /\ LET letter == content[pos + 1]
       IN  IF ~IsWhitespace(letter) /\ ~IsPunctuation(letter)
              /\ ~IsDigit(letter)
           THEN word' = Append(word, letter) /\ UNCHANGED <<yielded, words>>
           ELSE IF Len(word) > 0
           THEN /\ yielded' = Append(yielded, word)
                /\ words' = words \cup {word}
                /\ word' = <<>>
           ELSE UNCHANGED <<word, yielded, words>>
    /\ pos' = pos + 1
    /\ UNCHANGED <<env_vars, output_file, opened, pc, content, builder_vars,
                   err, err_step, log>>

\* Variant of TokenizeEnd: the word in the buffer is yielded at the end.
TokenizeEndFlushing ==
    /\ pc = "tokenize"
    /\ pos = Len(content)
    /\ pc' = "write"
    /\ IF Len(word) > 0
       THEN /\ yielded' = Append(yielded, word)
            /\ words' = words \cup {word}
            /\ word' = <<>>
       ELSE UNCHANGED <<word, yielded, words>>
    /\ UNCHANGED <<env_vars, output_file, opened, content, pos, builder_vars,
                   err, err_step, log>>

\* The content is exhausted: the generator returns.
TokenizeEnd ==
    /\ pc = "tokenize"
    /\ pos = Len(content)
    /\ pc' = "write"
    /\ UNCHANGED <<env_vars, output_file, opened, content, tokenizer_vars,
                   builder_vars, err, err_step, log>>

\* logger.info(...); with open(output, "w") as f: f.write(...)
WriteWords ==
    /\ pc = "write"
    /\ log' = Append(log, <<"INFO", "Writing">>)
    /\ IF output_file.kind = "directory"
       THEN Raise("IOError", "write") /\ UNCHANGED <<output_file, opened>>
       ELSE /\ opened' = TRUE
            /\ output_file' = [kind |-> "words",
                               text |-> Join(Sorted(words), LineFeed),
                               table |-> EmptyBag]
            /\ pc' = "done"
            /\ UNCHANGED <<err, err_step>>
    /\ UNCHANGED <<env_vars, content, tokenizer_vars, builder_vars>>

\* content.split("\n"), the argument of the builder
SplitContent ==
    /\ pc = "split"
    /\ word_list' = Split(content, LineFeed)
    /\ pc' = "build"
    /\ UNCHANGED <<env_vars, output_file, opened, content, tokenizer_vars,
                   wi, li, padded, matrix, letter_buffer1, letter_buffer2,
                   err, err_step, log>>

\* matrix.tofile(output)
MatrixToFile ==
    /\ pc = "tofile"
    /\ IF output_file.kind = "directory"
       THEN Raise("IOError", "tofile") /\ UNCHANGED <<output_file, opened>>
       ELSE /\ opened' = TRUE
            /\ output_file' = [kind |-> "matrix", text |-> <<>>,
                               table |-> matrix]
            /\ pc' = "done"
            /\ UNCHANGED <<err, err_step>>
    /\ UNCHANGED <<env_vars, content, tokenizer_vars, builder_vars, log>>

\* except Exception as err: logger.error(...)
Except ==
    /\ pc = "except"
    /\ IF IsException(err)
       THEN /\ log' = Append(log, <<"ERROR", err>>)
            /\ pc' = "done"
       ELSE /\ pc' = "crashed"
            /\ UNCHANGED log
    /\ UNCHANGED <<env_vars, output_file, opened, content, tokenizer_vars,
                   builder_vars, err, err_step>>

----
\* create_probability_matrix_from_words, statement by statement

\* for word in words: word = "\n{}\n".format(word)
BuildWord ==
    /\ pc = "build"
    /\ li = 0
    /\ wi < Len(word_list)
    /\ wi' = wi + 1
    /\ padded' = Padded(word_list[wi + 1])
    /\ li' = 1
    /\ UNCHANGED <<env_vars, output_file, opened, pc, content, tokenizer_vars,
                   word_list, matrix, letter_buffer1, letter_buffer2,
                   err, err_step, log>>

\* for letter in word: ...
BuildLetter ==
    /\ pc = "build"
    /\ li >= 1
    /\ LET st == CountLetter([matrix |-> matrix,
                              letter_buffer1 |-> letter_buffer1,
                              letter_buffer2 |-> letter_buffer2,
                              err |-> "None"], padded[li])
       IN  /\ matrix' = st.matrix
           /\ letter_buffer1' = st.letter_buffer1
           /\ letter_buffer2' = st.letter_buffer2
           /\ IF st.err # "None"
              THEN Raise(st.err, "build") /\ UNCHANGED li
              ELSE /\ li' = IF li = Len(padded) THEN 0 ELSE li + 1
                   /\ UNCHANGED <<pc, err, err_step>>
    /\ UNCHANGED <<env_vars, output_file, opened, content, tokenizer_vars,
                   word_list, wi, padded, log>>

\* return matrix
BuildReturn ==
    /\ pc = "build"
    /\ li = 0
    /\ wi = Len(word_list)
    /\ pc' = IF entry = "main" THEN "tofile" ELSE "returned"
    /\ UNCHANGED <<env_vars, output_file, opened, content, tokenizer_vars,
                   builder_vars, err, err_step, log>>

----
Next ==
    \/ LogStart
    \/ ValidateOutput
    \/ Fetch
    \/ TokenizeLetter
    \/ TokenizeEnd
    \/ WriteWords
    \/ SplitContent
    \/ BuildWord
    \/ BuildLetter
    \/ BuildReturn
    \/ MatrixToFile
    \/ Except

Spec == Init /\ [][Next]_vars

NextBuild ==
    \/ BuildWord
    \/ BuildLetter
    \/ BuildReturn

SpecBuild == InitBuild /\ [][NextBuild]_vars

----
\* Vocabulary of the properties.

\* A separator: whitespace, ASCII punctuation or a digit.
IsSeparator(c) == IsWhitespace(c) \/ IsPunctuation(c) \/ IsDigit(c)

\* A character the builder retains: neither punctuation nor a digit.
IsRetained(c) == ~IsPunctuation(c) /\ ~IsDigit(c)

NonEmpty(w) == Len(w) > 0

\* The maximal runs <<i, j>> of non-separators of text that a separator
\* follows.
Runs(text) ==
    {r \in (1..Len(text)) \X (1..Len(text)) :
        /\ r[1] <= r[2]
        /\ \A k \in r[1]..r[2] : ~IsSeparator(text[k])
        /\ r[1] = 1 \/ IsSeparator(text[r[1] - 1])
        /\ r[2] < Len(text)
        /\ IsSeparator(text[r[2] + 1])}

\* The words of those runs, in text order.
RunWords(text) ==
    [k \in 1..Cardinality(Runs(text)) |->
        LET r == CHOOSE x \in Runs(text) :
                     Cardinality({y \in Runs(text) : y[1] < x[1]}) = k - 1
        IN  SubSeq(text, r[1], r[2])]

\* yield_words_from_content is at work on content, or has finished.
Tokenizing ==
    /\ subcommand = "assemble"
    /\ pc \in {"tokenize", "write", "done", "except"}
    /\ err_step \notin {"validate_output", "fetch"}

TokenizeDone == Tokenizing /\ pc # "tokenize"

\* fetch_target_content has returned a text / has raised.
FetchReturned ==
    \/ pc \in {"tokenize", "split", "build", "write", "tofile"}
    \/ pc \in {"done", "except"} /\ err_step \notin {"validate_output", "fetch"}

FetchRaised == err_step = "fetch"

\* The builder was given exactly one word, all of whose characters are
\* retained and have a code in [0, 255].
SingleRetainedWord ==
    /\ Len(word_list) = 1
    /\ \A i \in 1..Len(word_list[1]) :
           IsRetained(word_list[1][i]) /\ word_list[1][i] \in 0..255

\* The builder has finished, with a matrix or with an exception.
BuildReturned == entry = "build" /\ pc = "returned"
BuildRaised == entry = "build" /\ pc = "raised"

\* The words one after the other, each between two line feeds.
RECURSIVE Stream(_)
Stream(ws) ==
    IF Len(ws) = 0 THEN <<>>
    ELSE <<LineFeed>> \o Head(ws) \o <<LineFeed>> \o Stream(Tail(ws))

\* The number of copies of cell in the windows of three consecutive codes
\* q[i], q[i+1], q[i+2], i in 1..n.
Windows(q, n, cell) ==
    Cardinality({i \in 1..n : <<q[i], q[i + 1], q[i + 2]>> = cell})

\* Each word without its punctuation and digits.
Strip(ws) == [i \in 1..Len(ws) |-> SelectSeq(ws[i], IsRetained)]

----
\* C1: at every moment of the scan, the words yielded so far are, in text
\* order, exactly the maximal runs of non-separators of the text read so far
\* that a separator follows; each is non-empty and holds no separator; a
\* text without separator yields nothing, and a non-empty separator-free
\* text followed by one separator yields exactly that text.
C1_YieldsTerminatedRuns ==
    Tokenizing =>
        /\ yielded = RunWords(SubSeq(content, 1, pos))
        /\ \A k \in 1..Len(yielded) :
               /\ Len(yielded[k]) > 0
               /\ \A i \in 1..Len(yielded[k]) : ~IsSeparator(yielded[k][i])
        /\ TokenizeDone =>
               /\ (\A i \in 1..Len(content) : ~IsSeparator(content[i]))
                      => yielded = <<>>
               /\ ( /\ Len(content) >= 2
                    /\ IsSeparator(content[Len(content)])
                    /\ \A i \in 1..(Len(content) - 1) :
                           ~IsSeparator(content[i]) )
                      => yielded = <<SubSeq(content, 1, Len(content) - 1)>>

\* A word was yielded and the run at the end of the text was dropped.
C1_Witness ==
    TokenizeDone /\ Len(yielded) >= 1 /\ Len(word) > 0

\* C2: for a single word of retained characters with codes in [0, 255], at
\* every moment of the scan of sentinel + w + sentinel the context is the
\* two codes before the next letter (0, 0 at first) and the table holds
\* exactly one count per letter scanned, in the cell (ctx1, ctx2, code), and
\* zero elsewhere; for "ab" the four cells [0][0][10], [0][10][97],
\* [10][97][98], [97][98][10] hold 1.
C2_SingleWordTable ==
    (entry = "build" /\ SingleRetainedWord /\ wi = 1
       /\ pc \in {"build", "returned"}) =>
        LET p == <<LineFeed>> \o word_list[1] \o <<LineFeed>>
            q == <<0, 0>> \o p
            n == IF li = 0 THEN Len(p) ELSE li - 1
            cells == BagToSet(matrix)
                     \cup {<<q[i], q[i + 1], q[i + 2]>> : i \in 1..Len(p)}
        IN  /\ letter_buffer1 = q[n + 1]
            /\ letter_buffer2 = q[n + 2]
            /\ \A cell \in cells : CopiesIn(cell, matrix) = Windows(q, n, cell)
            /\ (pc = "returned" /\ word_list[1] = <<97, 98>>) =>
                   matrix = SetToBag({<<0, 0, 10>>, <<0, 10, 97>>,
                                      <<10, 97, 98>>, <<97, 98, 10>>})

\* The table of "ab" was returned.
C2_Witness ==
    BuildReturned /\ word_list = <<(<<97, 98>>)>>

\* C3: the context is (0, 0) when the scan of each word's padded string
\* begins.
C3_ContextResetPerWord ==
    (pc = "build" /\ li = 1) => (letter_buffer1 = 0 /\ letter_buffer2 = 0)

\* C4, as claimed: the counters of the table of a single word of retained
\* characters sum to len(w) + 1.
C4_SumIsLenPlusOne ==
    (BuildReturned /\ SingleRetainedWord) =>
        BagCardinality(matrix) = Len(word_list[1]) + 1

\* C4, amended: the counters of the table of a single word of retained
\* characters with codes in [0, 255] sum to len(w) + 2, one per character
\* and one per sentinel.
C4_SumIsLenPlusTwo ==
    (BuildReturned /\ SingleRetainedWord) =>
        BagCardinality(matrix) = Len(word_list[1]) + 2

\* The table of a single word of two retained characters was returned.
C4_Witness ==
    BuildReturned /\ SingleRetainedWord /\ Len(word_list[1]) = 2

\* C5: the table of xs ++ ys is the element-wise sum of the table of xs and
\* the table of ys.
C5_Additive ==
    BuildReturned =>
        \A i \in 0..Len(word_list) :
            LET xs == SubSeq(word_list, 1, i)
                ys == SubSeq(word_list, i + 1, Len(word_list))
            IN  matrix = create_probability_matrix_from_words(xs).matrix
                         (+) create_probability_matrix_from_words(ys).matrix

\* C6: the table analyze builds from the lines of the content is the table
\* of the same lines without the empty ones.
C6_EmptyWordSkipped ==
    (entry = "main" /\ pc = "tofile") =>
        matrix = create_probability_matrix_from_words(
                     SelectSeq(word_list, NonEmpty)).matrix

\* C7: once a core step (validate_output, fetch, tokenization, building) has
\* raised, the output file is not opened and is what it was before the run,
\* the error is logged and the process does not crash; and the output file
\* is opened only after every core step has completed without error.
C7_NoOutputOnCoreError ==
    /\ pc # "crashed"
    /\ err_step \in {"validate_output", "fetch", "tokenize", "build"} =>
           /\ ~opened
           /\ output_file = output_file0
           /\ pc \in {"except", "done"}
           /\ pc = "done" => log[Len(log)] = <<"ERROR", err>>
    /\ opened =>
           /\ err = "None"
           /\ pc = "done"
           /\ subcommand = "assemble" => pos = Len(content)
           /\ subcommand = "analyze" =>
                  wi = Len(word_list) /\ li = 0 /\ Len(word_list) >= 1

\* The fetch raised, the command logged it and ended, an older output file
\* being there.
C7_Witness ==
    /\ pc = "done"
    /\ err_step = "fetch"
    /\ output_file0.kind = "old"
    /\ log[Len(log)] = <<"ERROR", err>>

\* C8: a retained character with a code of 256 or above makes the build
\* raise and return no table; nothing is counted for it: the table holds one
\* count per retained character before it, and no index is ever 256 or above.
C8_HighCodeRaises ==
    LET s == Stream(word_list)
        high == {i \in 1..Len(s) : IsRetained(s[i]) /\ s[i] >= MatrixSize}
    IN  /\ \A cell \in BagToSet(matrix) :
               cell[1] < MatrixSize /\ cell[2] < MatrixSize
               /\ cell[3] < MatrixSize
        /\ letter_buffer1 < MatrixSize /\ letter_buffer2 < MatrixSize
        /\ BuildReturned => high = {}
        /\ BuildRaised =>
               /\ high # {}
               /\ err = "IndexError"
               /\ LET first == CHOOSE i \in high : \A j \in high : i <= j
                  IN  BagCardinality(matrix) =
                          Cardinality({i \in 1..(first - 1) : IsRetained(s[i])})

\* The build raised after it had counted two letters or more.
C8_Witness ==
    BuildRaised /\ err = "IndexError" /\ BagCardinality(matrix) >= 2

\* C9: for a local path, the fetch returns a text only when the path is a
\* regular file the process may read, and raises IOError, returning no text,
\* for a missing path, a directory, any other non-regular path and a file
\* without read permission.
C9_LocalFetch ==
    ~target.url =>
        /\ FetchReturned => target.kind = "regular" /\ target.readable
        /\ ((FetchReturned \/ FetchRaised)
              /\ ~(target.kind = "regular" /\ target.readable)) =>
               FetchRaised /\ err = "IOError" /\ content = <<>>

\* The fetch of a regular file without read permission raised.
C9_Witness ==
    /\ ~target.url
    /\ target.kind = "regular"
    /\ ~target.readable
    /\ FetchRaised
    /\ err = "IOError"

\* C10: the table, the context and the outcome of a build are those of the
\* build of the same words with their punctuation and digits deleted.
C10_PunctuationAndDigitsSkipped ==
    (BuildReturned \/ BuildRaised) =>
        LET r == create_probability_matrix_from_words(Strip(word_list))
        IN  /\ matrix = r.matrix
            /\ letter_buffer1 = r.letter_buffer1
            /\ letter_buffer2 = r.letter_buffer2
            /\ err = r.err

\* A table was returned for a word holding a digit, a punctuation character
\* and a letter.
C10_Witness ==
    /\ BuildReturned
    /\ \E i \in 1..Len(word_list) :
           /\ \E k \in 1..Len(word_list[i]) : IsDigit(word_list[i][k])
           /\ \E k \in 1..Len(word_list[i]) : IsPunctuation(word_list[i][k])
           /\ \E k \in 1..Len(word_list[i]) : word_list[i][k] = 97

====
